---- MODULE Spec2Model ----
(***************************************************************************)
(* Startup / shutdown orchestration of main.js: storage initialisation     *)
(* (initDbIfNeeded), port allocation (findFreePort), the supervised        *)
(* Postgres and Listmonk child processes with their log-line readiness     *)
(* detection, the whenReady pipeline, and the before-quit / will-quit      *)
(* handlers.  Every handler of the single event loop is one action; the    *)
(* promise continuation a handler triggers runs in the same action, as the *)
(* microtask queue is drained before the next event is dispatched.         *)
(***************************************************************************)
EXTENDS Integers, Sequences, FiniteSets, TLC

\* ------------------------------------------------------------------ bounds
\* Largest maxAttempts given to findFreePort when it is checked on its own.
MaxAttemptsBound == 5
\* Number of consecutive initDbIfNeeded runs when it is checked on its own.
MaxRuns == 3
\* In a launch, at most this many of the first candidate ports are occupied,
\* unless every candidate is.
MaxBusyPorts == 1

\* ------------------------------------------------------- program constants
DefaultStartPort == 54321
DefaultMaxAttempts == 20
\* net.Server.listen(port) throws ERR_SOCKET_BAD_PORT above this value.
MaxPort == 65535
DefaultAppPort == "9000"

Null == "null"

\* ------------------------------------------------------------ output text
\* Process output is a sequence of text fragments; a data event delivers a
\* chunk: a nonempty run of consecutive fragments.
RA == "database system is ready "
RB == "to accept connections"
H == "http server started on 127.0.0.1:"
W == "Web server listening on http://127.0.0.1:"
X == "noise"
DigitToks == {"80", "42"}

EmptyOut == [stdout |-> <<>>, stderr |-> <<>>]

\* What a Postgres process may write (stdout, stderr) during its life.
PgOutputs ==
    { [stdout |-> <<RA, RB>>, stderr |-> <<>>],
      [stdout |-> <<>>, stderr |-> <<RA, RB, RA, RB>>],
      [stdout |-> <<>>, stderr |-> <<X>>] }

\* What a Listmonk process may write (stdout, stderr) during its life.
LmOutputs ==
    { [stdout |-> <<W, "80", "42">>, stderr |-> <<>>],
      [stdout |-> <<W, "80", H, "42">>, stderr |-> <<>>],
      [stdout |-> <<X>>, stderr |-> <<>>],
      [stdout |-> <<>>, stderr |-> <<H, "80">>] }

\* Exit codes of a close event: 0, or "1" for every value with code !== 0
\* (a nonzero code, or null when the process was killed by a signal).
ExitCodes == {"0", "1"}
\* The code of the close event that follows a failed spawn (negative errno).
SpawnErrCode == "-2"

SpawnOutcomes == {"ok", "error", "throw"}

\* String.prototype.includes of the readiness marker on one chunk.
Includes(txt) ==
    \E i \in 1..(Len(txt) - 1) : txt[i] = RA /\ txt[i + 1] = RB

RECURSIVE DigitRun(_, _)
\* The (\d+) group: the longest run of digits starting at position j.
DigitRun(txt, j) ==
    IF j > Len(txt) \/ txt[j] \notin DigitToks
    THEN ""
    ELSE txt[j] \o DigitRun(txt, j + 1)

\* String.prototype.match(/<prefix>(\d+)/): the capture of the leftmost
\* match in the chunk, or Null.
Match(txt, prefix) ==
    LET hits == { i \in 1..(Len(txt) - 1) :
                    txt[i] = prefix /\ txt[i + 1] \in DigitToks }
    IN  IF hits = {}
        THEN Null
        ELSE DigitRun(txt, (CHOOSE i \in hits : \A k \in hits : i <= k) + 1)

\* The two patterns of the Listmonk stdout handler, tried in order.
LmMatch(line) ==
    IF Match(line, H) # Null THEN Match(line, H) ELSE Match(line, W)

\* JavaScript's v || d on strings.
OrDefault(v, d) == IF v # Null /\ v # "" THEN v ELSE d

\* ----------------------------------------------------------- findFreePort
\* The frame of one findFreePort call: its arguments, the loop variables,
\* the probe results so far, and how the call stands.
FfpIdle ==
    [startPort |-> DefaultStartPort, maxAttempts |-> DefaultMaxAttempts,
     port |-> DefaultStartPort, i |-> 0, log |-> <<>>, status |-> "idle"]

\* Mutant of FfpLoop: the loop test is i <= maxAttempts.
FfpLoopOffByOne(f) ==
    IF f.i > f.maxAttempts THEN [f EXCEPT !.status = "exhausted"]
    ELSE IF f.port > MaxPort THEN [f EXCEPT !.status = "badport"]
    ELSE [f EXCEPT !.status = "probing"]

\* Loop head: leave the loop when i reaches maxAttempts (throw), otherwise
\* listen on the candidate, which throws when the port is out of range.
FfpLoop(f) ==
    IF f.i >= f.maxAttempts THEN [f EXCEPT !.status = "exhausted"]
    ELSE IF f.port > MaxPort THEN [f EXCEPT !.status = "badport"]
    ELSE [f EXCEPT !.status = "probing"]

FfpCall(P, N) ==
    FfpLoop([startPort |-> P, maxAttempts |-> N, port |-> P, i |-> 0,
             log |-> <<>>, status |-> "idle"])

\* The probe of f.port settles: return the port when free, else port++, i++.
FfpProbe(f, isFree) ==
    IF isFree
    THEN [f EXCEPT !.log = Append(f.log, [port |-> f.port, free |-> TRUE]),
                   !.status = "returned"]
    ELSE FfpLoop([f EXCEPT !.log = Append(f.log, [port |-> f.port, free |-> FALSE]),
                            !.port = f.port + 1, !.i = f.i + 1])

\* ------------------------------------------------------------------ state
VARIABLES
    dataDir, lockFile, initMarker, logDir,
    initdbChild, initLog,
    ffp,
    pc, pgPort,
    pgProcess, pgChild, pgPromise, pgOut, pgClose, pgSpawns, pgMatches,
    installChild, installRuns, installResult,
    listmonkProcess, lmChild, lmPromise, lmOut, lmClose, ephemeralPort,
    lmSpawns, lmMatches, lmFirst,
    isQuitting, quit, killLog, shutdownRaised,
    dialogs, mainWindow, windowOpen, windowCount,
    unserved, pgWritten, lmWritten, splitLines,
    markerAtLaunch

storageVars == <<dataDir, lockFile, initMarker, logDir>>
initVars == <<initdbChild, initLog>>
pgVars == <<pgProcess, pgChild, pgPromise, pgOut, pgClose, pgSpawns, pgMatches>>
installVars == <<installChild, installRuns, installResult>>
lmVars ==
    <<listmonkProcess, lmChild, lmPromise, lmOut, lmClose, ephemeralPort,
      lmSpawns, lmMatches, lmFirst>>
quitVars == <<isQuitting, quit, killLog, shutdownRaised>>
windowVars == <<mainWindow, windowOpen, windowCount>>

\* History: what each supervised process was given to write.
writtenVars == <<pgWritten, lmWritten, splitLines>>

vars ==
    <<storageVars, initVars, ffp, pc, pgPort, pgVars, installVars, lmVars,
      quitVars, dialogs, windowVars, unserved, writtenVars, markerAtLaunch>>

\* Storage as a launch can find it: the marker lives in DATA_DIR, and a lock
\* file is left only by a Postgres that ran on initialised storage.
StorageOk ==
    /\ dataDir \in BOOLEAN /\ lockFile \in BOOLEAN
    /\ initMarker \in BOOLEAN /\ logDir \in BOOLEAN
    /\ initMarker => dataDir
    /\ lockFile => initMarker

\* dialog.showErrorBox calls so far, by title.
NoDialogs == [startup |-> 0, postgres |-> 0, listmonk |-> 0]

ShowErrorBox(title) == [dialogs EXCEPT ![title] = @ + 1]

\* The state of the module scope after lines 29-33, before any event.
InitProgram ==
    /\ initdbChild = "none" /\ initLog = <<>>
    /\ pc = "idle" /\ pgPort = 0
    /\ pgProcess = Null /\ pgChild = "none" /\ pgPromise = "none"
    /\ pgOut = EmptyOut /\ pgClose = <<>> /\ pgSpawns = 0
    /\ pgMatches = 0 /\ lmMatches = 0 /\ lmFirst = Null
    /\ installChild = "none" /\ installRuns = 0 /\ installResult = "none"
    /\ listmonkProcess = Null /\ lmChild = "none"
    /\ lmPromise = [state |-> "none", ephemeralPort |-> Null]
    /\ lmOut = EmptyOut /\ lmClose = <<>> /\ ephemeralPort = Null
    /\ lmSpawns = 0
    /\ isQuitting = FALSE /\ quit = "running" /\ killLog = <<>>
    /\ shutdownRaised = FALSE
    /\ dialogs = NoDialogs /\ mainWindow = Null /\ windowOpen = FALSE
    /\ windowCount = 0
    /\ unserved = {} /\ pgWritten = EmptyOut /\ lmWritten = EmptyOut
    /\ splitLines = {}

Init ==
    /\ StorageOk
    /\ markerAtLaunch = initMarker
    /\ ffp = FfpIdle
    /\ InitProgram

LastInit == initLog[Len(initLog)]

\* ---------------------------------------------------------------- shutdown
\* Which kill calls raise: the graceful one and the fallback, per handle.
KillOutcomes ==
    [lmTerm : BOOLEAN, lmKill : BOOLEAN, pgTerm : BOOLEAN, pgKill : BOOLEAN]

\* if (handle) { try { handle.kill('SIGTERM') } catch (_) { handle.kill() } }
KillCalls(role, handle, termRaises, killRaises) ==
    IF handle = Null THEN <<>>
    ELSE IF ~termRaises
    THEN << [role |-> role, call |-> "SIGTERM", raised |-> FALSE] >>
    ELSE << [role |-> role, call |-> "SIGTERM", raised |-> TRUE],
            [role |-> role, call |-> "kill", raised |-> killRaises] >>

\* The block throws when the call in its catch clause raises.
KillThrows(handle, termRaises, killRaises) ==
    handle # Null /\ termRaises /\ killRaises

\* The calls the will-quit handler makes, in order, under outcome ko.
WillQuitCalls(ko) ==
    LET lm == KillCalls("listmonk", listmonkProcess, ko.lmTerm, ko.lmKill)
        pg == KillCalls("postgres", pgProcess, ko.pgTerm, ko.pgKill)
    IN  IF KillThrows(listmonkProcess, ko.lmTerm, ko.lmKill)
        THEN lm
        ELSE lm \o pg

WillQuitThrows(ko) ==
    \/ KillThrows(listmonkProcess, ko.lmTerm, ko.lmKill)
    \/ KillThrows(pgProcess, ko.pgTerm, ko.pgKill)

\* Mutant of willQuit: only the Listmonk handle is signalled.
willQuitListmonkOnly(ko) ==
    /\ killLog' = killLog \o KillCalls("listmonk", listmonkProcess, ko.lmTerm, ko.lmKill)
    /\ shutdownRaised' = KillThrows(listmonkProcess, ko.lmTerm, ko.lmKill)

\* app.on('will-quit')
willQuit(ko) ==
    /\ killLog' = killLog \o WillQuitCalls(ko)
    /\ shutdownRaised' = WillQuitThrows(ko)

\* app.on('before-quit')
beforeQuit == isQuitting' = TRUE

\* app.quit(): before-quit is emitted; with no window open will-quit follows
\* in the same call, otherwise once the windows have closed.
appQuit(ko) ==
    IF quit # "running"
    THEN UNCHANGED quitVars
    ELSE /\ beforeQuit
         /\ IF windowOpen
            THEN quit' = "before" /\ UNCHANGED <<killLog, shutdownRaised>>
            ELSE quit' = "will" /\ willQuit(ko)

\* Mutant of Catch: the error is shown but app.quit() is not called.
CatchWithoutQuit(ko) ==
    /\ pc' = "failed"
    /\ dialogs' = ShowErrorBox("startup")
    /\ UNCHANGED quitVars

\* The catch block of the whenReady handler.
Catch(ko) ==
    /\ pc' = "failed"
    /\ dialogs' = ShowErrorBox("startup")
    /\ appQuit(ko)

\* ------------------------------------------------------------ storage init
\* cleanLeftoverLockFile: the lock file after the call.
cleanLeftoverLockFile(unlinkOk) ==
    IF lockFile /\ unlinkOk THEN FALSE ELSE lockFile

\* Mutant of NeedsBootstrap: the marker is not consulted.
NeedsBootstrapAlways == TRUE

\* if (!fs.existsSync(initMarker))
NeedsBootstrap == ~initMarker

\* Mutant of BootstrapSucceeded: the exit code is not consulted.
BootstrapAlwaysSucceeded(code) == TRUE

\* if (code === 0) in the close handler of initdb
BootstrapSucceeded(code) == code = "0"

\* The synchronous part of initDbIfNeeded, up to its await.
initDbIfNeeded(mkOk, unlinkOk, sp) ==
    IF ~dataDir /\ ~mkOk
    THEN /\ UNCHANGED <<dataDir, lockFile, initdbChild>>
         /\ initLog' = Append(initLog,
                [spawned |-> FALSE, code |-> "none", result |-> "fail"])
    ELSE /\ dataDir' = TRUE
         /\ lockFile' = cleanLeftoverLockFile(unlinkOk)
         /\ IF NeedsBootstrap
            THEN IF sp = "throw"
                 THEN /\ UNCHANGED initdbChild
                      /\ initLog' = Append(initLog,
                            [spawned |-> TRUE, code |-> "none", result |-> "fail"])
                 ELSE /\ initdbChild' = IF sp = "ok" THEN "running" ELSE "spawnfail"
                      /\ initLog' = Append(initLog,
                            [spawned |-> TRUE, code |-> "none", result |-> "pending"])
            ELSE /\ UNCHANGED initdbChild
                 /\ initLog' = Append(initLog,
                        [spawned |-> FALSE, code |-> "none", result |-> "ok"])

\* proc.on('close') of initdb
initdbOnClose(code) ==
    /\ initdbChild \in {"running", "errored"}
    /\ IF initdbChild = "running" THEN code \in ExitCodes ELSE code = SpawnErrCode
    /\ initdbChild' = "closed"
    /\ initMarker' = IF BootstrapSucceeded(code) THEN TRUE ELSE initMarker
    /\ initLog' = [initLog EXCEPT ![Len(initLog)] =
            [@ EXCEPT !.code = code,
                      !.result = IF @ # "pending" THEN @
                                 ELSE IF BootstrapSucceeded(code) THEN "ok" ELSE "fail"]]

\* proc.on('error') of initdb
initdbOnError ==
    /\ initdbChild = "spawnfail"
    /\ initdbChild' = "errored"
    /\ initLog' = [initLog EXCEPT ![Len(initLog)] =
            [@ EXCEPT !.result = IF @ = "pending" THEN "fail" ELSE @]]

\* ---------------------------------------------------------------- pipeline
\* Mutant of Resumes: every matching data event resumes the pipeline.
ResumesOnEveryMatch(promiseState, matched) == matched

\* Whether a readiness match resumes the pipeline: a promise settles once.
Resumes(promiseState, matched) == matched /\ promiseState = "pending"

\* Mutant of CrashReported: the isQuitting flag is not consulted.
CrashReportedWhileQuitting(code) == code # "0"

\* if (!isQuitting && code !== 0) in the close handlers
CrashReported(code) == ~isQuitting /\ code # "0"

\* Mutant of InstallRejects: the error of the migration command is dropped.
InstallNeverRejects(err) == FALSE

\* if (err) return reject(err) in the execFile callback
InstallRejects(err) == err

\* Step B after Step A: the pipeline goes on when initDbIfNeeded resolved,
\* to the catch block when it rejected, and waits while it is pending.
AfterInit(ko) ==
    LET r == initLog'[Len(initLog')].result
    IN  CASE r = "ok" ->
               /\ ffp' = FfpCall(DefaultStartPort, DefaultMaxAttempts)
               /\ IF ffp'.status = "probing"
                  THEN pc' = "probe" /\ UNCHANGED <<dialogs, quitVars>>
                  ELSE Catch(ko)
          [] r = "fail" -> UNCHANGED ffp /\ Catch(ko)
          [] OTHER -> pc' = "initdb" /\ UNCHANGED <<ffp, dialogs, quitVars>>

\* createLogStream: throws when the log directory cannot be created.
LogStreamThrows(mkOk) == ~logDir /\ ~mkOk

\* Step C: startPostgres(port), up to the await of its promise.
startPostgres(mkOk, sp, out, ko) ==
    IF LogStreamThrows(mkOk)
    THEN /\ pgPromise' = "rejected"
         /\ UNCHANGED <<logDir, pgProcess, pgChild, pgOut, pgSpawns, pgWritten>>
         /\ Catch(ko)
    ELSE /\ logDir' = TRUE
         /\ pgSpawns' = pgSpawns + 1
         /\ IF sp = "throw"
            THEN /\ pgPromise' = "rejected"
                 /\ UNCHANGED <<pgProcess, pgChild, pgOut, pgWritten>>
                 /\ Catch(ko)
            ELSE /\ pgProcess' = "proc"
                 /\ pgChild' = IF sp = "ok" THEN "running" ELSE "spawnfail"
                 /\ pgOut' = IF sp = "ok" THEN out ELSE EmptyOut
                 /\ pgWritten' = pgOut'
                 /\ pgPromise' = "pending"
                 /\ pc' = "pg"
                 /\ UNCHANGED <<dialogs, quitVars>>

\* Step D: installListmonk(pgPort), up to the await of its promise.
installListmonk ==
    /\ installChild' = "running"
    /\ installRuns' = installRuns + 1
    /\ pc' = "install"

\* Step E: startListmonk(pgPort), up to the await of its promise.
startListmonk(mkOk, sp, out, ko) ==
    IF LogStreamThrows(mkOk)
    THEN /\ lmPromise' = [state |-> "rejected", ephemeralPort |-> Null]
         /\ UNCHANGED <<logDir, listmonkProcess, lmChild, lmOut, lmSpawns,
                        ephemeralPort, lmWritten>>
         /\ Catch(ko)
    ELSE /\ logDir' = TRUE
         /\ lmSpawns' = lmSpawns + 1
         /\ IF sp = "throw"
            THEN /\ lmPromise' = [state |-> "rejected", ephemeralPort |-> Null]
                 /\ UNCHANGED <<listmonkProcess, lmChild, lmOut, ephemeralPort,
                                lmWritten>>
                 /\ Catch(ko)
            ELSE /\ listmonkProcess' = "proc"
                 /\ lmChild' = IF sp = "ok" THEN "running" ELSE "spawnfail"
                 /\ lmOut' = IF sp = "ok" THEN out ELSE EmptyOut
                 /\ lmWritten' = lmOut'
                 /\ ephemeralPort' = Null
                 /\ lmPromise' = [state |-> "pending", ephemeralPort |-> Null]
                 /\ pc' = "lm"
                 /\ UNCHANGED <<dialogs, quitVars>>

\* createWindow(port)
createWindow(port) ==
    /\ mainWindow' = "http://127.0.0.1:" \o OrDefault(port, DefaultAppPort)
    /\ windowOpen' = TRUE
    /\ windowCount' = windowCount + 1

\* Step F after Step E resolved with { ephemeralPort: p }.
AfterListmonk(p) ==
    /\ createWindow(OrDefault(p, DefaultAppPort))
    /\ pc' = "ready"

\* The event sources an action starts: a child process or a port probe.
NewlyStarted ==
    { s \in {"initdb", "probe", "pg", "install", "lm"} :
        CASE s = "initdb" ->
               initdbChild' # initdbChild /\ initdbChild' \in {"running", "spawnfail"}
          [] s = "probe" -> ffp' # ffp /\ ffp'.status = "probing"
          [] s = "pg" -> pgSpawns' # pgSpawns /\ pgChild' \in {"running", "spawnfail"}
          [] s = "install" -> installRuns' # installRuns
          [] OTHER -> lmSpawns' # lmSpawns /\ lmChild' \in {"running", "spawnfail"} }

\* The host leaves its event loop after will-quit: events that were pending
\* are still dispatched, the events of what is started afterwards are not.
MarkLate ==
    unserved' = IF quit = "will" THEN unserved \cup NewlyStarted ELSE unserved

Served(s) == s \notin unserved

\* A data event cuts a line when what is still to come starts in the middle
\* of one: with the second half of the Postgres line, or with digits.
CutsLine(rest) == rest # <<>> /\ Head(rest) \in {RB} \cup DigitToks

\* The processes of which a data event so far delivered part of a line.
NoteSplit(source, rest) ==
    splitLines' = IF CutsLine(rest) THEN splitLines \cup {source} ELSE splitLines

\* ------------------------------------------------------------------ events
\* app.whenReady().then(...): Step A starts.
whenReady(mkOk, unlinkOk, sp, ko) ==
    /\ pc = "idle"
    /\ initDbIfNeeded(mkOk, unlinkOk, sp)
    /\ AfterInit(ko)
    /\ UNCHANGED <<initMarker, logDir, pgPort, pgVars, installVars, lmVars,
                   windowVars, markerAtLaunch, writtenVars>>
    /\ MarkLate

\* The close event of initdb.
initdbClose(code, ko) ==
    /\ Served("initdb")
    /\ initdbOnClose(code)
    /\ IF LastInit.result = "pending"
       THEN AfterInit(ko)
       ELSE UNCHANGED <<ffp, pc, dialogs, quitVars>>
    /\ UNCHANGED <<dataDir, lockFile, logDir, pgPort, pgVars, installVars,
                   lmVars, windowVars, markerAtLaunch, writtenVars>>
    /\ MarkLate

\* The error event of initdb (the spawn failed).
initdbError(ko) ==
    /\ Served("initdb")
    /\ initdbOnError
    /\ Catch(ko)
    /\ UNCHANGED <<storageVars, ffp, pgPort, pgVars, installVars, lmVars,
                   windowVars, markerAtLaunch, unserved, writtenVars>>

\* The probe server of findFreePort emits 'error' or 'listening' then 'close'.
probeSettled(isFree, mkOk, sp, out, ko) ==
    /\ Served("probe") /\ pc = "probe" /\ ffp.status = "probing"
    /\ isFree => ffp.i <= MaxBusyPorts
    /\ ffp' = FfpProbe(ffp, isFree)
    /\ CASE ffp'.status = "probing" ->
              UNCHANGED <<pc, pgPort, logDir, pgVars, pgWritten, dialogs, quitVars>>
         [] ffp'.status = "returned" ->
              /\ pgPort' = ffp'.port
              /\ startPostgres(mkOk, sp, out, ko)
              /\ UNCHANGED <<pgClose, pgMatches>>
         [] OTHER ->
              /\ Catch(ko)
              /\ UNCHANGED <<pgPort, logDir, pgVars, pgWritten>>
    /\ UNCHANGED <<dataDir, lockFile, initMarker, initVars, installVars, lmVars,
                   windowVars, markerAtLaunch, lmWritten, splitLines>>
    /\ MarkLate

\* A data event on stdout or stderr of Postgres delivering n fragments.
pgData(stream, n) ==
    /\ Served("pg") /\ pgChild = "running"
    /\ n \in 1..Len(pgOut[stream])
    /\ LET txt == SubSeq(pgOut[stream], 1, n)
           matched == Includes(txt)
       IN  /\ pgOut' = [pgOut EXCEPT ![stream] = SubSeq(@, n + 1, Len(@))]
           /\ pgMatches' = IF matched THEN pgMatches + 1 ELSE pgMatches
           /\ IF Resumes(pgPromise, matched)
              THEN /\ pgPromise' = "resolved"
                   /\ installListmonk
                   /\ UNCHANGED installResult
              ELSE UNCHANGED <<pgPromise, pc, installVars>>
    /\ NoteSplit("pg", pgOut'[stream])
    /\ UNCHANGED <<storageVars, initVars, ffp, pgPort, pgProcess, pgChild,
                   pgClose, pgSpawns, lmVars, quitVars, dialogs, windowVars,
                   markerAtLaunch, pgWritten, lmWritten>>
    /\ MarkLate

\* Mutant of pgError: the error handler logs and does not reject.
pgErrorLogged(ko) ==
    /\ Served("pg") /\ pgChild = "spawnfail"
    /\ pgChild' = "errored"
    /\ UNCHANGED <<storageVars, initVars, ffp, pc, pgPort, pgProcess, pgPromise,
                   pgOut, pgClose, pgSpawns, pgMatches, installVars, lmVars,
                   quitVars, dialogs, windowVars, markerAtLaunch, unserved,
                   writtenVars>>

\* The error event of Postgres (the spawn failed).
pgError(ko) ==
    /\ Served("pg") /\ pgChild = "spawnfail"
    /\ pgChild' = "errored"
    /\ IF pgPromise = "pending"
       THEN pgPromise' = "rejected" /\ Catch(ko)
       ELSE UNCHANGED <<pgPromise, pc, dialogs, quitVars>>
    /\ UNCHANGED <<storageVars, initVars, ffp, pgPort, pgProcess, pgOut, pgClose,
                   pgSpawns, pgMatches, installVars, lmVars, windowVars,
                   markerAtLaunch, unserved, writtenVars>>

\* The close event of Postgres: after its streams ended, or after the error
\* event of a failed spawn.
pgCloseEv(code) ==
    /\ Served("pg")
    /\ \/ pgChild = "running" /\ pgOut = EmptyOut /\ code \in ExitCodes
       \/ pgChild = "errored" /\ code = SpawnErrCode
    /\ pgChild' = "closed"
    /\ pgClose' = << [code |-> code, quitting |-> isQuitting] >>
    /\ dialogs' = IF CrashReported(code)
                  THEN ShowErrorBox("postgres") ELSE dialogs
    /\ UNCHANGED <<storageVars, initVars, ffp, pc, pgPort, pgProcess, pgPromise,
                   pgOut, pgSpawns, pgMatches, installVars, lmVars, quitVars,
                   windowVars, markerAtLaunch, unserved, writtenVars>>

\* The execFile callback of the migration command.
installDone(err, mkOk, sp, out, ko) ==
    /\ Served("install") /\ installChild = "running"
    /\ installChild' = "done"
    /\ installRuns' = installRuns
    /\ installResult' = IF err THEN "fail" ELSE "ok"
    /\ IF InstallRejects(err)
       THEN /\ Catch(ko)
            /\ UNCHANGED <<logDir, lmVars, lmWritten>>
       ELSE /\ startListmonk(mkOk, sp, out, ko)
            /\ UNCHANGED <<lmClose, lmMatches, lmFirst>>
    /\ UNCHANGED <<dataDir, lockFile, initMarker, initVars, ffp, pgPort, pgVars,
                   windowVars, markerAtLaunch, pgWritten, splitLines>>
    /\ MarkLate

\* A data event on stdout of Listmonk delivering n fragments.
lmStdout(n) ==
    /\ Served("lm") /\ lmChild = "running"
    /\ n \in 1..Len(lmOut.stdout)
    /\ LET line == SubSeq(lmOut.stdout, 1, n)
           match == LmMatch(line)
       IN  /\ lmOut' = [lmOut EXCEPT !.stdout = SubSeq(@, n + 1, Len(@))]
           /\ ephemeralPort' = IF match # Null THEN match ELSE ephemeralPort
           /\ lmMatches' = IF match # Null THEN lmMatches + 1 ELSE lmMatches
           /\ lmFirst' = IF match # Null /\ lmMatches = 0 THEN match ELSE lmFirst
           /\ IF Resumes(lmPromise.state, match # Null)
              THEN /\ lmPromise' = [state |-> "resolved", ephemeralPort |-> match]
                   /\ AfterListmonk(match)
              ELSE UNCHANGED <<lmPromise, pc, windowVars>>
    /\ NoteSplit("lm", lmOut'.stdout)
    /\ UNCHANGED <<storageVars, initVars, ffp, pgPort, pgVars, installVars,
                   listmonkProcess, lmChild, lmClose, lmSpawns, quitVars, dialogs,
                   markerAtLaunch, unserved, pgWritten, lmWritten>>

\* A data event on stderr of Listmonk: logged, not scanned.
lmStderr(n) ==
    /\ Served("lm") /\ lmChild = "running"
    /\ n \in 1..Len(lmOut.stderr)
    /\ lmOut' = [lmOut EXCEPT !.stderr = SubSeq(@, n + 1, Len(@))]
    /\ UNCHANGED <<storageVars, initVars, ffp, pc, pgPort, pgVars, installVars,
                   listmonkProcess, lmChild, lmPromise, lmClose, ephemeralPort,
                   lmSpawns, lmMatches, lmFirst, quitVars, dialogs, windowVars,
                   markerAtLaunch, unserved, pgWritten, lmWritten>>
    /\ NoteSplit("lm", lmOut'.stderr)

\* The error event of Listmonk (the spawn failed).
lmError(ko) ==
    /\ Served("lm") /\ lmChild = "spawnfail"
    /\ lmChild' = "errored"
    /\ IF lmPromise.state = "pending"
       THEN /\ lmPromise' = [state |-> "rejected", ephemeralPort |-> Null]
            /\ Catch(ko)
       ELSE UNCHANGED <<lmPromise, pc, dialogs, quitVars>>
    /\ UNCHANGED <<storageVars, initVars, ffp, pgPort, pgVars, installVars,
                   listmonkProcess, lmOut, lmClose, ephemeralPort, lmSpawns,
                   lmMatches, lmFirst, windowVars, markerAtLaunch, unserved, writtenVars>>

\* Mutant of lmCloseEv: a reported crash also sets isQuitting.
lmCloseEvQuitting(code) ==
    /\ Served("lm")
    /\ \/ lmChild = "running" /\ lmOut = EmptyOut /\ code \in ExitCodes
       \/ lmChild = "errored" /\ code = SpawnErrCode
    /\ lmChild' = "closed"
    /\ lmClose' = << [code |-> code, quitting |-> isQuitting] >>
    /\ dialogs' = IF CrashReported(code)
                  THEN ShowErrorBox("listmonk") ELSE dialogs
    /\ isQuitting' = IF CrashReported(code) THEN TRUE ELSE isQuitting
    /\ UNCHANGED <<storageVars, initVars, ffp, pc, pgPort, pgVars, installVars,
                   listmonkProcess, lmPromise, lmOut, ephemeralPort, lmSpawns,
                   lmMatches, lmFirst, quit, killLog, shutdownRaised, windowVars,
                   markerAtLaunch, unserved, writtenVars>>

\* The close event of Listmonk.
lmCloseEv(code) ==
    /\ Served("lm")
    /\ \/ lmChild = "running" /\ lmOut = EmptyOut /\ code \in ExitCodes
       \/ lmChild = "errored" /\ code = SpawnErrCode
    /\ lmChild' = "closed"
    /\ lmClose' = << [code |-> code, quitting |-> isQuitting] >>
    /\ dialogs' = IF CrashReported(code)
                  THEN ShowErrorBox("listmonk") ELSE dialogs
    /\ UNCHANGED <<storageVars, initVars, ffp, pc, pgPort, pgVars, installVars,
                   listmonkProcess, lmPromise, lmOut, ephemeralPort, lmSpawns,
                   lmMatches, lmFirst, quitVars, windowVars, markerAtLaunch, unserved, writtenVars>>

\* The user quits the application (menu, dock, Cmd+Q): app.quit().
userQuit(ko) ==
    /\ quit = "running"
    /\ appQuit(ko)
    /\ UNCHANGED <<storageVars, initVars, ffp, pc, pgPort, pgVars, installVars,
                   lmVars, dialogs, windowVars, markerAtLaunch, unserved, writtenVars>>

\* The user closes the window: app.on('window-all-closed') calls app.quit().
windowAllClosed(ko) ==
    /\ quit = "running" /\ windowOpen
    /\ windowOpen' = FALSE
    /\ beforeQuit /\ quit' = "will" /\ willQuit(ko)
    /\ UNCHANGED <<storageVars, initVars, ffp, pc, pgPort, pgVars, installVars,
                   lmVars, dialogs, mainWindow, windowCount, markerAtLaunch, unserved, writtenVars>>

\* The windows app.quit() was closing are closed: will-quit is emitted.
quitWindowsClosed(ko) ==
    /\ quit = "before"
    /\ windowOpen' = FALSE
    /\ quit' = "will" /\ willQuit(ko)
    /\ UNCHANGED <<storageVars, initVars, ffp, pc, pgPort, pgVars, installVars,
                   lmVars, isQuitting, dialogs, mainWindow, windowCount,
                   markerAtLaunch, unserved, writtenVars>>

Next ==
    \/ \E mkOk \in BOOLEAN, unlinkOk \in BOOLEAN, sp \in SpawnOutcomes,
          ko \in KillOutcomes : whenReady(mkOk, unlinkOk, sp, ko)
    \/ \E code \in ExitCodes \cup {SpawnErrCode}, ko \in KillOutcomes :
          initdbClose(code, ko)
    \/ \E ko \in KillOutcomes : initdbError(ko)
    \/ \E isFree \in BOOLEAN, mkOk \in BOOLEAN, sp \in SpawnOutcomes,
          out \in PgOutputs, ko \in KillOutcomes :
          probeSettled(isFree, mkOk, sp, out, ko)
    \/ \E stream \in {"stdout", "stderr"}, n \in 1..4 : pgData(stream, n)
    \/ \E ko \in KillOutcomes : pgError(ko)
    \/ \E code \in ExitCodes \cup {SpawnErrCode} : pgCloseEv(code)
    \/ \E err \in BOOLEAN, mkOk \in BOOLEAN, sp \in SpawnOutcomes,
          out \in LmOutputs, ko \in KillOutcomes :
          installDone(err, mkOk, sp, out, ko)
    \/ \E n \in 1..5 : lmStdout(n)
    \/ \E n \in 1..5 : lmStderr(n)
    \/ \E ko \in KillOutcomes : lmError(ko)
    \/ \E code \in ExitCodes \cup {SpawnErrCode} : lmCloseEv(code)
    \/ \E ko \in KillOutcomes : userQuit(ko)
    \/ \E ko \in KillOutcomes : windowAllClosed(ko)
    \/ \E ko \in KillOutcomes : quitWindowsClosed(ko)

Spec == Init /\ [][Next]_vars

\* The events the event loop dispatches on its own: every handler but the
\* two the user triggers.
NextDispatched ==
    \/ \E mkOk \in BOOLEAN, unlinkOk \in BOOLEAN, sp \in SpawnOutcomes,
          ko \in KillOutcomes : whenReady(mkOk, unlinkOk, sp, ko)
    \/ \E code \in ExitCodes \cup {SpawnErrCode}, ko \in KillOutcomes :
          initdbClose(code, ko)
    \/ \E ko \in KillOutcomes : initdbError(ko)
    \/ \E isFree \in BOOLEAN, mkOk \in BOOLEAN, sp \in SpawnOutcomes,
          out \in PgOutputs, ko \in KillOutcomes :
          probeSettled(isFree, mkOk, sp, out, ko)
    \/ \E stream \in {"stdout", "stderr"}, n \in 1..4 : pgData(stream, n)
    \/ \E ko \in KillOutcomes : pgError(ko)
    \/ \E code \in ExitCodes \cup {SpawnErrCode} : pgCloseEv(code)
    \/ \E err \in BOOLEAN, mkOk \in BOOLEAN, sp \in SpawnOutcomes,
          out \in LmOutputs, ko \in KillOutcomes :
          installDone(err, mkOk, sp, out, ko)
    \/ \E n \in 1..5 : lmStdout(n)
    \/ \E n \in 1..5 : lmStderr(n)
    \/ \E ko \in KillOutcomes : lmError(ko)
    \/ \E code \in ExitCodes \cup {SpawnErrCode} : lmCloseEv(code)
    \/ \E ko \in KillOutcomes : quitWindowsClosed(ko)

\* The launch under a fair event loop: a pending event is eventually
\* dispatched, so every child eventually has its output delivered and exits.
SpecFair == Spec /\ WF_vars(NextDispatched)

\* ------------------------------------------------ findFreePort on its own
\* findFreePort(P, N) called with arguments from small sets; nothing else runs.
StartPorts == {1024, DefaultStartPort, MaxPort - 1, MaxPort}

InitPort ==
    /\ dataDir = FALSE /\ lockFile = FALSE /\ initMarker = FALSE
    /\ logDir = FALSE /\ markerAtLaunch = FALSE
    /\ InitProgram
    /\ \E P \in StartPorts, N \in 0..MaxAttemptsBound : ffp = FfpCall(P, N)

\* The probe of the current candidate settles.
portProbe(isFree) ==
    /\ ffp.status = "probing"
    /\ ffp' = FfpProbe(ffp, isFree)
    /\ UNCHANGED <<storageVars, initVars, pc, pgPort, pgVars, installVars, lmVars,
                   quitVars, dialogs, windowVars, markerAtLaunch, unserved, writtenVars>>

NextPort == \E isFree \in BOOLEAN : portProbe(isFree)

SpecPort == InitPort /\ [][NextPort]_vars

\* ---------------------------------------------- initDbIfNeeded on its own
\* initDbIfNeeded run MaxRuns times in sequence on the same storage, each run
\* starting once the previous one has settled and its child has closed.
InitStorage ==
    /\ StorageOk
    /\ markerAtLaunch = initMarker
    /\ ffp = FfpIdle
    /\ InitProgram

storageRun(mkOk, unlinkOk, sp) ==
    /\ Len(initLog) < MaxRuns
    /\ initdbChild \in {"none", "closed"}
    /\ IF initLog = <<>> THEN TRUE ELSE LastInit.result # "pending"
    /\ initDbIfNeeded(mkOk, unlinkOk, sp)
    /\ UNCHANGED <<initMarker, logDir, ffp, pc, pgPort, pgVars, installVars,
                   lmVars, quitVars, dialogs, windowVars, markerAtLaunch, unserved, writtenVars>>

storageInitdbClose(code) ==
    /\ initdbOnClose(code)
    /\ UNCHANGED <<dataDir, lockFile, logDir, ffp, pc, pgPort, pgVars,
                   installVars, lmVars, quitVars, dialogs, windowVars,
                   markerAtLaunch, unserved, writtenVars>>

storageInitdbError ==
    /\ initdbOnError
    /\ UNCHANGED <<storageVars, ffp, pc, pgPort, pgVars, installVars, lmVars,
                   quitVars, dialogs, windowVars, markerAtLaunch, unserved, writtenVars>>

NextStorage ==
    \/ \E mkOk \in BOOLEAN, unlinkOk \in BOOLEAN, sp \in SpawnOutcomes :
          storageRun(mkOk, unlinkOk, sp)
    \/ \E code \in ExitCodes \cup {SpawnErrCode} : storageInitdbClose(code)
    \/ storageInitdbError

SpecStorage == InitStorage /\ [][NextStorage]_vars

\* ================================================================== claims

\* C1: the database is spawned only after initDbIfNeeded resolved, the
\* migration command only after a readiness line of the database was seen,
\* and the application only after the migration command succeeded.
C1_StageOrder ==
    /\ (pgSpawns > 0) => (initLog # <<>> /\ LastInit.result = "ok")
    /\ (installRuns > 0) => (pgMatches > 0)
    /\ (lmSpawns > 0) => (installResult = "ok")

\* A launch that went through every stage.
C1_Witness ==
    pc = "ready" /\ pgSpawns = 1 /\ installRuns = 1 /\ lmSpawns = 1

\* C2 (as claimed): a supervised process that closes before any readiness
\* match leaves its readiness promise rejected and the pipeline failed.
C2_ExitRejectsReadiness ==
    /\ (pgClose # <<>> /\ pgMatches = 0) => (pgPromise = "rejected" /\ pc = "failed")
    /\ (lmClose # <<>> /\ lmMatches = 0) =>
           (lmPromise.state = "rejected" /\ pc = "failed")

\* C3: once a readiness line matched, the pipeline was resumed exactly once,
\* with the value of the first matching data event; later matches change
\* neither the stage reached nor the address loaded.
C3_ReadinessOnce ==
    /\ (pgMatches > 0) => (pgPromise = "resolved" /\ installRuns = 1)
    /\ (lmMatches > 0) =>
           /\ lmPromise = [state |-> "resolved", ephemeralPort |-> lmFirst]
           /\ windowCount = 1
           /\ mainWindow = "http://127.0.0.1:" \o lmFirst

\* Both processes matched twice, the second Listmonk match with another port.
C3_Witness ==
    pgMatches = 2 /\ lmMatches = 2 /\ ephemeralPort # lmFirst

\* C4: the crash dialogs shown for a role are exactly one for a close event
\* with isQuitting unset and code other than 0, and none otherwise.
C4_CrashNotification ==
    /\ dialogs.postgres =
           IF pgClose # <<>> /\ ~pgClose[1].quitting /\ pgClose[1].code # "0"
           THEN 1 ELSE 0
    /\ dialogs.listmonk =
           IF lmClose # <<>> /\ ~lmClose[1].quitting /\ lmClose[1].code # "0"
           THEN 1 ELSE 0

\* Listmonk crashed before the quit and was reported; Postgres exited with a
\* nonzero code after before-quit and was not.
C4_Witness ==
    /\ lmClose # <<>> /\ ~lmClose[1].quitting /\ lmClose[1].code = "1"
    /\ dialogs.listmonk = 1
    /\ pgClose # <<>> /\ pgClose[1].quitting /\ pgClose[1].code = "1"
    /\ dialogs.postgres = 0

\* C5 (as claimed): signals are sent only with isQuitting set, Listmonk
\* before Postgres, and Postgres is never signalled while a spawned Listmonk
\* handle is unsignalled.
C5_ShutdownOrder ==
    /\ (killLog # <<>>) => isQuitting
    /\ \A i, j \in DOMAIN killLog :
           (i < j) => ~(killLog[i].role = "postgres" /\ killLog[j].role = "listmonk")
    /\ ((\E i \in DOMAIN killLog : killLog[i].role = "postgres")
            /\ listmonkProcess # Null)
           => (\E j \in DOMAIN killLog : killLog[j].role = "listmonk")

\* C6 (as claimed): the will-quit handler never raises, a raising SIGTERM is
\* followed by a kill() on the same handle, and Postgres is signalled even
\* when signalling Listmonk raised.
C6_ShutdownNeverFails ==
    /\ ~shutdownRaised
    /\ \A i \in DOMAIN killLog :
           (killLog[i].call = "SIGTERM" /\ killLog[i].raised) =>
               /\ i < Len(killLog)
               /\ killLog[i + 1].role = killLog[i].role
               /\ killLog[i + 1].call = "kill"
    /\ ((\E i \in DOMAIN killLog : killLog[i].role = "listmonk" /\ killLog[i].raised)
            /\ pgProcess # Null)
           => (\E j \in DOMAIN killLog : killLog[j].role = "postgres")

\* C7 (as claimed): for all P and N, findFreePort probes P, P+1, ... in
\* order, returns the lowest candidate of [P, P+N) whose probe succeeded, and
\* fails only after exactly N failed probes.
C7_FindFreePortAnyRange ==
    LET P == ffp.startPort
        N == ffp.maxAttempts
        log == ffp.log
    IN  /\ \A k \in DOMAIN log : log[k].port = P + k - 1
        /\ (ffp.status = "returned") =>
               /\ ffp.port \in P..(P + N - 1)
               /\ \E k \in DOMAIN log : log[k].port = ffp.port /\ log[k].free
               /\ \A k \in DOMAIN log : (log[k].port < ffp.port) => ~log[k].free
        /\ (ffp.status \in {"exhausted", "badport"}) =>
               /\ Len(log) = N
               /\ \A k \in DOMAIN log : ~log[k].free

\* C7 (amended): the same, for the P and N whose candidates are all valid
\* ports, P + N - 1 <= 65535.
C7_FindFreePort ==
    (ffp.startPort + ffp.maxAttempts - 1 <= MaxPort) => C7_FindFreePortAnyRange

\* Port 54321 occupied: 54322 is returned.
C7_Witness ==
    /\ ffp.startPort = DefaultStartPort /\ ffp.status = "returned"
    /\ ffp.port = DefaultStartPort + 1

\* C8: the marker exists only if it existed at launch or a bootstrap run
\* closed with code 0; a bootstrap that exits nonzero or fails to spawn makes
\* initDbIfNeeded fail and leaves the marker absent, and the next run invokes
\* the bootstrap command again.
C8_MarkerAfterBootstrap ==
    /\ initMarker =>
           (markerAtLaunch \/ \E k \in DOMAIN initLog : initLog[k].code = "0")
    /\ (initdbChild = "errored") => (LastInit.result = "fail")
    /\ \A k \in DOMAIN initLog :
           /\ (initLog[k].code \notin {"none", "0"}) => (initLog[k].result = "fail")
           /\ (initLog[k].spawned /\ initLog[k].result = "fail") =>
                  /\ (k = Len(initLog)) => ~initMarker
                  /\ (k < Len(initLog)) => initLog[k + 1].spawned

\* The first bootstrap exited 1, the next run bootstrapped again, with code 0.
C8_Witness ==
    /\ Len(initLog) = 2 /\ initLog[1].code = "1"
    /\ initLog[2].spawned /\ initLog[2].code = "0" /\ initMarker

\* C9 (as claimed): of two runs in sequence the second never bootstraps and
\* reports success, and at most one of them bootstraps, whatever the outcome
\* of the first.
C9_SecondRunNoOp ==
    (Len(initLog) >= 2) =>
        /\ ~initLog[2].spawned
        /\ initLog[2].result = "ok"
        /\ ~(initLog[1].spawned /\ initLog[2].spawned)

\* C9 (amended): the same, when the first run reported success.
C9_SecondRunNoOpAfterSuccess ==
    (Len(initLog) >= 2 /\ initLog[1].result = "ok") => C9_SecondRunNoOp

\* The first run bootstrapped with code 0, the second did nothing and resolved.
C9_Witness ==
    /\ Len(initLog) = 2 /\ initLog[1].spawned /\ initLog[1].code = "0"
    /\ ~initLog[2].spawned /\ initLog[2].result = "ok"

\* C10 (as claimed): when Listmonk ran and closed without having written a
\* readiness line, the pipeline is Ready with the window on 127.0.0.1:9000.
C10_DefaultAddressFallback ==
    (/\ lmClose # <<>> /\ lmClose[1].code # SpawnErrCode
     /\ \A prefix \in {H, W} :
            /\ Match(lmWritten.stdout, prefix) = Null
            /\ Match(lmWritten.stderr, prefix) = Null)
        => (pc = "ready" /\ mainWindow = "http://127.0.0.1:" \o DefaultAppPort)

C12_DbSpawnFailure ==
    (\/ pgChild = "errored"
     \/ pgClose # <<>> /\ pgClose[1].code = SpawnErrCode)
        => /\ pc = "failed" /\ pgPromise = "rejected"
           /\ pgMatches = 0
           /\ installRuns = 0 /\ lmSpawns = 0 /\ listmonkProcess = Null
           /\ \A i \in DOMAIN killLog : killLog[i].role # "listmonk"
           /\ quit = "will"

\* The spawn of Postgres failed and the shutdown that followed has run.
C12_Witness ==
    /\ pgClose # <<>> /\ pgClose[1].code = SpawnErrCode
    /\ pc = "failed" /\ quit = "will" /\ killLog # <<>>

\* C13: once the migration command has failed, the pipeline has failed,
\* Listmonk was never spawned, and the will-quit handler has called kill on
\* the Postgres handle, SIGTERM first.
C13_MigrationFailure ==
    (installResult = "fail") =>
        /\ pc = "failed"
        /\ lmSpawns = 0 /\ listmonkProcess = Null
        /\ quit = "will"
        /\ killLog # <<>>
        /\ killLog[1].role = "postgres" /\ killLog[1].call = "SIGTERM"

\* The migration command failed while Postgres was running; the failure
\* requested the quit, and Postgres received SIGTERM.
C13_Witness ==
    /\ installResult = "fail" /\ pgChild = "running"
    /\ dialogs.startup = 1
    /\ killLog = << [role |-> "postgres", call |-> "SIGTERM", raised |-> FALSE] >>

\* C14 (as claimed): when the leftover lock file could not be deleted, or the
\* log directory could not be created, the pipeline still goes on to the
\* next stage.
C14_BestEffortErrors ==
    /\ (pc # "idle" /\ lockFile) =>
           (LastInit.result = "ok" /\ ffp # FfpIdle)
    /\ (ffp.status = "returned" /\ ~logDir) => (pgSpawns = 1)

\* C15 (as claimed): a readiness line delivered whole on stdout or on stderr,
\* of Postgres and of Listmonk alike, resolves the readiness of that process.
C15_ReadyOnEitherStream ==
    \A stream \in {"stdout", "stderr"} :
        /\ (/\ Includes(pgWritten[stream]) /\ pgOut[stream] = <<>>
            /\ "pg" \notin splitLines /\ Served("pg"))
               => (pgPromise = "resolved")
        /\ (/\ LmMatch(lmWritten[stream]) # Null /\ lmOut[stream] = <<>>
            /\ "lm" \notin splitLines /\ Served("lm"))
               => (lmPromise.state = "resolved")

\* C16 (as claimed): the window exists exactly in Ready, is created once, and
\* when Listmonk wrote a readiness line to stdout it loads 127.0.0.1:<port>
\* with the number of the first readiness line written.
C16_ReportedPort ==
    LET out == lmWritten.stdout
        hits == { i \in 1..(Len(out) - 1) :
                    out[i] \in {H, W} /\ out[i + 1] \in DigitToks }
        first == CHOOSE i \in hits : \A k \in hits : i <= k
    IN  /\ windowCount <= 1
        /\ (windowCount = 1) <=> (pc = "ready")
        /\ (pc = "ready" /\ hits # {}) =>
               (mainWindow = "http://127.0.0.1:" \o DigitRun(out, first + 1))

\* C17: a close event with a code other than 0 of either supervised process,
\* in Ready with isQuitting unset, shows one crash dialog and changes neither
\* isQuitting, the quit phase, the kill calls made, the pipeline outcome nor
\* the window.
C17_CrashNonFatal ==
    [][ (/\ pc = "ready" /\ ~isQuitting
         /\ \/ pgClose = <<>> /\ pgClose' # <<>> /\ pgClose'[1].code # "0"
            \/ lmClose = <<>> /\ lmClose' # <<>> /\ lmClose'[1].code # "0")
        => /\ dialogs'.postgres + dialogs'.listmonk
                  = dialogs.postgres + dialogs.listmonk + 1
           /\ dialogs'.startup = dialogs.startup
           /\ UNCHANGED <<quitVars, pc, windowVars>> ]_vars

\* Listmonk crashed in Ready: reported, while the host keeps running with
\* its window, Postgres running and unsignalled.
C17_Witness ==
    /\ pc = "ready" /\ lmClose # <<>> /\ lmClose[1].code = "1"
    /\ ~lmClose[1].quitting /\ dialogs.listmonk = 1
    /\ ~isQuitting /\ quit = "running" /\ windowOpen
    /\ pgChild = "running" /\ killLog = <<>>

\* C18 (as claimed): when the whole output delivered on a scanned stream
\* contains a complete readiness line, readiness is resolved, however the
\* output was cut into data events.
C18_SplitLineDetected ==
    /\ \A stream \in {"stdout", "stderr"} :
           (Includes(pgWritten[stream]) /\ pgOut[stream] = <<>> /\ Served("pg"))
               => (pgPromise = "resolved")
    /\ (/\ \E prefix \in {H, W} : Match(lmWritten.stdout, prefix) # Null
        /\ lmOut.stdout = <<>> /\ Served("lm"))
           => (lmPromise.state = "resolved")

\* C19 (as claimed): once will-quit has run, every child that was spawned and
\* has not exited has had kill called on it.
C19_AllChildrenSignalled ==
    (quit = "will") =>
        /\ initdbChild # "running"
        /\ installChild # "running"
        /\ (pgChild = "running") =>
               (\E i \in DOMAIN killLog : killLog[i].role = "postgres")
        /\ (lmChild = "running") =>
               (\E i \in DOMAIN killLog : killLog[i].role = "listmonk")

\* C20 (as claimed): under a fair event loop every launch eventually is Ready
\* or Failed, unless the user quits first.
C20_EventuallyTerminal ==
    <>(pc \in {"ready", "failed"} \/ quit # "running")

====
